---- MODULE Spec2Model ----
(***************************************************************************)
(* Model of python_gitlab_plus.gitlab_plus.GitLabClient: the merge-request *)
(* status helpers has_merge_conflicts, is_mr_merged and is_mr_open and the  *)
(* polling loop wait_until_mr_finished, run against a remote merge request *)
(* that other parties change while the client runs.                        *)
(***************************************************************************)
EXTENDS Integers, Sequences, FiniteSets, TLC

VARIABLES
    remote,       \* the merge request as it currently is on the GitLab server
    collab_up,    \* TRUE while project.mergerequests.get answers; FALSE while it raises
    pc,           \* position of the one client call this behaviour follows
    check_interval, \* wait_until_mr_finished's check_interval argument
    timeout,      \* its timeout argument: <<>> is None, <<n>> is the integer n
    start_time,   \* its local start_time
    now,          \* the reading time.time() gives
    mr,           \* its local mr (line 123)
    polls,        \* how many times line 123 fetched the merge request
    cycle_gets,   \* how many times the current poll cycle has fetched it
    ret           \* the last return of a status helper: what it fetched, what it gave

vars == <<remote, collab_up, pc, check_interval, timeout, start_time, now,
          mr, polls, cycle_gets, ret>>

----------------------------------------------------------------------------
(* Bounds of the model *)

\* Clock readings are kept up to Horizon. Line 120 only compares the elapsed
\* time with timeout, and every timeout of the model is below Horizon, so all
\* later readings behave alike.
Horizon == 30

\* polls counts up to MaxPolls and stays there.
MaxPolls == 7

Min(a, b) == IF a <= b THEN a ELSE b

----------------------------------------------------------------------------
(* Python values *)

\* A Python str.
PyStr(s) == [type |-> "str", value |-> s]

\* class GitLabStatus(Enum): a member is an object of type GitLabStatus that
\* carries its value; Enum is not mixed with str.
GitLabStatus ==
    [ OPEN  |-> [type |-> "GitLabStatus", value |-> "Opened"],
      CLOSE |-> [type |-> "GitLabStatus", value |-> "Closed"],
      MERGE |-> [type |-> "GitLabStatus", value |-> "Merged"],
      LOCKE |-> [type |-> "GitLabStatus", value |-> "Locked"] ]

\* Python's a == b between a str and a GitLabStatus member or two of a kind:
\* str compares by content with another str only; an Enum member equals
\* only itself; across the two types both sides answer NotImplemented and
\* the result is False.
PyEq(a, b) == a.type = b.type /\ a.value = b.value

\* Python's "x in list".
PyIn(x, list) == \E i \in 1..Len(list) : PyEq(x, list[i])

----------------------------------------------------------------------------
(* The merge request the collaborator serves *)

\* mr.state as the GitLab API gives it: a str.
ApiStates == {"opened", "closed", "merged", "locked"}

\* mr.has_conflicts: the attribute may be missing.
ConflictFlags == {"absent", "true", "false"}

\* mr.detailed_merge_status: the attribute may be missing.
DetailedStatuses == {"absent", "conflicts", "cannot_be_merged", "mergeable"}

MergeRequests ==
    [state : ApiStates, has_conflicts : ConflictFlags,
     detailed_merge_status : DetailedStatuses]

\* No merge request object (a local not yet assigned).
NoMr == [state |-> "none", has_conflicts |-> "absent",
         detailed_merge_status |-> "absent"]

----------------------------------------------------------------------------
(* has_merge_conflicts, lines 79-88, on a fetched merge request *)

\* line 84
conflict_statuses == <<"conflicts", "cannot_be_merged">>

StrIn(s, list) == \E i \in 1..Len(list) : list[i] = s

\* A variant that lets a present flag decide alone.
FlagShadows_HasConflicts(m) ==
    IF m.has_conflicts # "absent"
    THEN m.has_conflicts = "true"
    ELSE StrIn(m.detailed_merge_status, conflict_statuses)

HasConflicts(m) ==
    IF m.has_conflicts # "absent" /\ m.has_conflicts = "true"
    THEN TRUE
    ELSE IF m.detailed_merge_status # "absent"
            /\ StrIn(m.detailed_merge_status, conflict_statuses)
         THEN TRUE
         ELSE FALSE

\* is_mr_merged, line 93
IsMerged(m) == PyEq(PyStr(m.state), GitLabStatus.MERGE)

\* is_mr_open, line 103
IsOpen(m) == PyEq(PyStr(m.state), GitLabStatus.OPEN)

----------------------------------------------------------------------------
(* wait_until_mr_finished, lines 110-131 *)

\* lines 112-116
close_statuses == <<GitLabStatus.CLOSE, GitLabStatus.MERGE, GitLabStatus.LOCKE>>

\* Python's truth value of the timeout argument (Optional[int]).
Truthy(to) == to # <<>> /\ to[1] # 0

\* line 120: timeout and (time.time() - start_time) > timeout
TimedOut(to, elapsed) == Truthy(to) /\ elapsed > to[1]

\* A variant that swallows the failure and goes round the loop again.
Retried_AfterGetFailure == "loop"

\* Where an exception raised by project.mergerequests.get leaves the call:
\* no try/except surrounds lines 74, 78, 91, 101, 123 or 126.
AfterGetFailure == "CollaboratorError"

\* A variant that calls has_merge_conflicts and drops its answer.
Unraised_WatchNext(conflict, m) ==
    IF PyIn(PyStr(m.state), close_statuses)
    THEN "returned"
    ELSE "loop"

\* lines 126-131, once has_merge_conflicts has returned conflict for the
\* cycle whose line 123 fetched m: raise, break or sleep and loop.
WatchNext(conflict, m) ==
    IF conflict
    THEN "Exception"
    ELSE IF PyIn(PyStr(m.state), close_statuses)
         THEN "returned"
         ELSE "loop"

NoRet == [op |-> "none", mr |-> NoMr, result |-> FALSE]

Running == {"idle", "loop", "fetched"}

CheckIntervals == {5, 10}
Timeouts == {<<>>, <<0>>, <<10>>, <<25>>}

Init ==
    /\ remote \in MergeRequests
    /\ collab_up \in BOOLEAN
    /\ pc = "idle"
    /\ check_interval = 10
    /\ timeout = <<>>
    /\ start_time = 0
    /\ now = 0
    /\ mr = NoMr
    /\ polls = 0
    /\ cycle_gets = 0
    /\ ret = NoRet

\* Another party edits one field of the merge request on the server.
ExternalChange ==
    /\ pc \in Running
    /\ \E m \in MergeRequests :
          /\ m # remote
          /\ \/ m.has_conflicts = remote.has_conflicts
                /\ m.detailed_merge_status = remote.detailed_merge_status
             \/ m.state = remote.state
                /\ m.detailed_merge_status = remote.detailed_merge_status
             \/ m.state = remote.state
                /\ m.has_conflicts = remote.has_conflicts
          /\ remote' = m
    /\ UNCHANGED <<collab_up, pc, check_interval, timeout, start_time, now,
                   mr, polls, cycle_gets, ret>>

\* The collaborator starts or stops failing (network, permission, not found).
CollaboratorChange ==
    /\ pc \in Running
    /\ collab_up' = ~collab_up
    /\ UNCHANGED <<remote, pc, check_interval, timeout, start_time, now,
                   mr, polls, cycle_gets, ret>>

\* A status helper called on its own: lines 77-88, 90-98, 100-108.
Helper(op, result) ==
    /\ pc = "idle"
    /\ IF collab_up
       THEN /\ ret' = [op |-> op, mr |-> remote, result |-> result]
            /\ pc' = "helper_returned"
       ELSE /\ ret' = ret
            /\ pc' = AfterGetFailure
    /\ UNCHANGED <<remote, collab_up, check_interval, timeout, start_time,
                   now, mr, polls, cycle_gets>>

has_merge_conflicts == Helper("has_merge_conflicts", HasConflicts(remote))

is_mr_merged == Helper("is_mr_merged", IsMerged(remote))

is_mr_open == Helper("is_mr_open", IsOpen(remote))

\* lines 110-118: the call, up to the first iteration.
wait_until_mr_finished(ci, to) ==
    /\ pc = "idle"
    /\ check_interval' = ci
    /\ timeout' = to
    /\ start_time' = now
    /\ pc' = "loop"
    /\ cycle_gets' = 0
    /\ UNCHANGED <<remote, collab_up, now, mr, polls, ret>>

\* lines 119-124: the timeout check, then the watcher's own fetch.
LoopHead ==
    /\ pc = "loop"
    /\ IF TimedOut(timeout, now - start_time)
       THEN /\ pc' = "TimeoutError"
            /\ UNCHANGED <<mr, polls>>
            /\ cycle_gets' = 0
       ELSE IF collab_up
            THEN /\ mr' = remote
                 /\ polls' = Min(polls + 1, MaxPolls)
                 /\ cycle_gets' = 1
                 /\ pc' = "fetched"
            ELSE /\ pc' = AfterGetFailure
                 /\ cycle_gets' = 0
                 /\ UNCHANGED <<mr, polls>>
    /\ UNCHANGED <<remote, collab_up, check_interval, timeout, start_time,
                   now, ret>>

\* lines 126-131: has_merge_conflicts(mr_number) fetches the merge request
\* again (line 78) and judges that fetch; then raise, break, or sleep.
\* time.sleep(check_interval) moves the clock by check_interval; ret keeps
\* the helper's return only when the watch ends on it.
LoopBody ==
    /\ pc = "fetched"
    /\ IF collab_up
       THEN LET conflict == HasConflicts(remote)
                next == WatchNext(conflict, mr)
            IN /\ pc' = next
               /\ cycle_gets' = cycle_gets + 1
               /\ IF next = "loop"
                  THEN /\ now' = Min(now + check_interval, Horizon)
                       /\ ret' = NoRet
                  ELSE /\ now' = now
                       /\ ret' = [op |-> "has_merge_conflicts",
                                   mr |-> remote, result |-> conflict]
       ELSE /\ pc' = AfterGetFailure
            /\ UNCHANGED <<now, ret, cycle_gets>>
    /\ UNCHANGED <<remote, collab_up, check_interval, timeout, start_time,
                   mr, polls>>

Next ==
    \/ ExternalChange
    \/ CollaboratorChange
    \/ has_merge_conflicts
    \/ is_mr_merged
    \/ is_mr_open
    \/ \E ci \in CheckIntervals, to \in Timeouts : wait_until_mr_finished(ci, to)
    \/ LoopHead
    \/ LoopBody

Spec == Init /\ [][Next]_vars

\* The interpreter keeps running the loop: each step of it is taken once it
\* can be. Nothing is assumed of the other parties.
FairSpec == Spec /\ WF_vars(LoopHead) /\ WF_vars(LoopBody)

----------------------------------------------------------------------------
(* What the claims speak of *)

\* The elapsed time line 120 compares.
Elapsed == now - start_time

\* A timeout was given (any value but None) and the elapsed time is above it.
Exceeded == timeout # <<>> /\ Elapsed > timeout[1]

\* The str the GitLab API gives for each status the enumeration names.
ApiLabel == [OPEN |-> "opened", CLOSE |-> "closed", MERGE |-> "merged",
             LOCKE |-> "locked"]

TerminalLabels == {ApiLabel.CLOSE, ApiLabel.MERGE, ApiLabel.LOCKE}

\* The two conflict signals, as the design states them.
ConflictSignalled(m) ==
    \/ m.has_conflicts = "true"
    \/ m.detailed_merge_status \in {"conflicts", "cannot_be_merged"}

\* C1: a poll cycle that passed the timeout check, saw no conflict and had
\* fetched a merge request in state CLOSE, MERGE or LOCKE returns in that
\* cycle: the watch is never back at the head of the loop, after a sleep,
\* holding a merge request it fetched in one of those states.
C1_TerminalStateReturns ==
    (pc = "loop" /\ polls > 0) => mr.state \notin TerminalLabels

\* C2: a poll cycle that passed the timeout check and in which
\* has_merge_conflicts reports a conflict ends the watch with the conflict
\* exception in that cycle, with no sleep and no further poll; a watch that
\* ended so on its first poll never slept; and once ended so it stays so.
C2_ConflictFailsInCycle ==
    /\ [][ (pc = "fetched" /\ pc' # "fetched" /\ collab_up
              /\ HasConflicts(remote))
            => (pc' = "Exception" /\ now' = now /\ polls' = polls) ]_vars
    /\ [][ pc = "Exception" => (pc' = "Exception" /\ now' = now
                                 /\ polls' = polls) ]_vars
    /\ [](pc = "Exception" /\ polls = 1 => now = start_time)

\* C2's case: the first poll fetched an open merge request, the conflict
\* check saw the flag set, and the watch ended with the exception at once.
C2_Witness ==
    /\ pc = "Exception"
    /\ polls = 1
    /\ mr.state = ApiLabel.OPEN
    /\ ret.op = "has_merge_conflicts"
    /\ ret.mr.has_conflicts = "true"
    /\ ret.result
    /\ now = start_time

\* C3: the timeout check comes first in every cycle: a cycle at whose start
\* a given timeout is exceeded ends in TimeoutError, so no cycle gets past
\* the check (to the fetch, the conflict exception or the return) with the
\* timeout exceeded. No time passes inside a cycle.
C3_TimeoutCheckedFirst ==
    pc \in {"fetched", "Exception", "returned"} => ~Exceeded

\* C4: TimeoutError is raised on the first cycle at whose start the elapsed
\* time is strictly above the timeout and on none before; with
\* check_interval 10 and timeout 25 that is after three polls, at 30.
C4_TimeoutOnFirstExceedingCycle ==
    /\ pc = "TimeoutError" =>
          /\ Exceeded
          /\ Elapsed - check_interval <= timeout[1]
    /\ (pc = "fetched" /\ timeout # <<>>) => Elapsed <= timeout[1]
    /\ (pc = "TimeoutError" /\ check_interval = 10 /\ timeout = <<25>>) =>
          (polls = 3 /\ Elapsed = 30)

\* C5: has_merge_conflicts returns true exactly when the flag is present and
\* true or the detailed status is present and one of "conflicts",
\* "cannot_be_merged".
C5_HasConflictsIffSignalled ==
    ret.op = "has_merge_conflicts" => (ret.result <=> ConflictSignalled(ret.mr))

\* C5's case: the flag is present and false, the detailed status matches,
\* and the helper fell through to it and returned true.
C5_Witness ==
    /\ pc = "helper_returned"
    /\ ret.op = "has_merge_conflicts"
    /\ ret.mr.has_conflicts = "false"
    /\ ret.mr.detailed_merge_status = "cannot_be_merged"
    /\ ret.result

\* C6: is_mr_merged returns true exactly when the merge request it fetched
\* is in state MERGE.
C6_IsMergedIffMerge ==
    ret.op = "is_mr_merged" => (ret.result <=> ret.mr.state = ApiLabel.MERGE)

\* C7: is_mr_open returns true exactly when the merge request it fetched is
\* in state OPEN.
C7_IsOpenIffOpen ==
    ret.op = "is_mr_open" => (ret.result <=> ret.mr.state = ApiLabel.OPEN)

\* C8: a fetch that fails during the watch, be it the watcher's own or the
\* conflict check's, ends the watch with the collaborator's error in that
\* step: no sleep, no poll, no other outcome; and it stays ended.
C8_GetFailurePropagates ==
    /\ [][ (/\ pc \in {"loop", "fetched"}
             /\ pc' # pc
             /\ ~collab_up
             /\ ~(pc = "loop" /\ TimedOut(timeout, Elapsed)))
            => (pc' = "CollaboratorError"
                /\ UNCHANGED <<now, polls, mr, ret>>) ]_vars
    /\ [][ pc = "CollaboratorError" => pc' = "CollaboratorError" ]_vars

\* C8's case: the watcher's fetch succeeded, the conflict check's fetch of
\* the same cycle failed, and the watch ended with that error.
C8_Witness ==
    /\ pc = "CollaboratorError"
    /\ polls >= 1
    /\ cycle_gets = 1
    /\ ~collab_up

\* C9: a watch called with a timeout (any value but None, 0 included) ends,
\* whatever the merge request does.
C9_WatchWithTimeoutEnds ==
    (pc = "loop" /\ timeout # <<>>) ~> (pc \notin {"loop", "fetched"})

\* C10: a poll cycle fetches the merge request once, and the conflict
\* exception or the return is decided on the snapshot whose state the
\* cycle holds.
C10_OneSnapshotPerCycle ==
    /\ cycle_gets <= 1
    /\ pc \in {"Exception", "returned"} => ret.mr = mr

====
